---- MODULE Spec2Model ----
(***************************************************************************)
(* Model of app.py, the Streamlit career-guidance page.                    *)
(*                                                                         *)
(* One step of the model is one run of the script (one render cycle),      *)
(* triggered by one interaction of the user.  The session state of         *)
(* app.py (show_main, history, api_errors, last_request, error) is the     *)
(* state of the model; `now` is the wall clock in whole seconds, `runs`     *)
(* counts the runs and `last` records what the latest run did (its inputs, *)
(* the branch it took, the widgets it rendered), so that properties can    *)
(* speak about it.                                                         *)
(*                                                                         *)
(* A text is a run-length encoded string: a sequence of runs [c, n], n     *)
(* copies of the character c.  This keeps 500-character fields small.      *)
(***************************************************************************)
EXTENDS Integers, Sequences, FiniteSets, TLC

VARIABLES show_main, history, api_errors, last_request, error, now, runs, last

vars == <<show_main, history, api_errors, last_request, error, now, runs, last>>

(* ------------------------------ bounds -------------------------------- *)

\* number of script runs explored in one session, not counting the runs in
\* which the service failed at the service level: of those the script itself
\* allows no more than MaxApiErrors + 1
MaxRuns == 3

\* number of times the service answers with advice in one session
MaxAnswers == 2

\* number of days the session is followed after the day it starts
MaxDays == 1

(* -------------------------- program constants -------------------------- *)

MinLen == 3
MaxFieldLen == 500
MaxApiErrors == 3
MinInterval == 5
SecondsPerDay == 86400

(* ------------------------------- texts --------------------------------- *)

R(c, n) == [c |-> c, n |-> n]

RECURSIVE TextLen(_)
TextLen(t) == IF t = <<>> THEN 0 ELSE Head(t).n + TextLen(Tail(t))

\* the character classes of the pattern [^\w\s@.,-]
IsWord(c) == c \in {"a", "_", "0"}
IsSpace(c) == c \in {" "}
Allowed(c) == IsWord(c) \/ IsSpace(c) \/ c \in {"@", ".", ",", "-"}

\* re.search(r'[^\w\s@.,-]', text): some character outside the class
HasDisallowed(t) == \E i \in 1..Len(t) : ~Allowed(t[i].c)

RECURSIVE lstrip(_)
lstrip(t) == IF t # <<>> /\ IsSpace(Head(t).c) THEN lstrip(Tail(t)) ELSE t

RECURSIVE rstrip(_)
rstrip(t) ==
    IF t # <<>> /\ IsSpace(t[Len(t)].c) THEN rstrip(SubSeq(t, 1, Len(t) - 1)) ELSE t

strip(t) == rstrip(lstrip(t))

\* adjacent runs of one character are one run
RECURSIVE Merge(_)
Merge(t) ==
    IF Len(t) < 2 THEN t
    ELSE IF t[1].c = t[2].c
         THEN Merge(<<R(t[1].c, t[1].n + t[2].n)>> \o SubSeq(t, 3, Len(t)))
         ELSE <<t[1]>> \o Merge(Tail(t))

\* re.sub(r'[^\w\s@.,-]', '', text)
re_sub(t) == Merge(SelectSeq(t, LAMBDA r : Allowed(r.c)))

clean_input(text) == IF text # <<>> THEN strip(re_sub(text)) ELSE <<>>

(* ----------------------------- validation ------------------------------ *)

\* FieldErrors with a lower limit of 2 characters
FieldErrors_min2(f, v) ==
    (IF TextLen(v) < MinLen - 1 THEN <<[field |-> f, msg |-> "too short (min 3 chars)"]>> ELSE <<>>)
    \o (IF TextLen(v) > MaxFieldLen THEN <<[field |-> f, msg |-> "exceeds 500 chars"]>> ELSE <<>>)

\* the two length tests of one field
FieldErrors(f, v) ==
    (IF TextLen(v) < MinLen THEN <<[field |-> f, msg |-> "too short (min 3 chars)"]>> ELSE <<>>)
    \o (IF TextLen(v) > MaxFieldLen THEN <<[field |-> f, msg |-> "exceeds 500 chars"]>> ELSE <<>>)

\* kwargs is the dict `cleaned`; its keys come in the order the form defines them
validate_inputs(kwargs) ==
    FieldErrors("user_name", kwargs.user_name)
    \o FieldErrors("education", kwargs.education)
    \o FieldErrors("skills", kwargs.skills)
    \o FieldErrors("goals", kwargs.goals)
    \o FieldErrors("interests", kwargs.interests)
    \o (IF HasDisallowed(kwargs.user_name)
        THEN <<[field |-> "user_name", msg |-> "Invalid characters in name"]>>
        ELSE <<>>)

cleaned_of(p) ==
    [user_name |-> clean_input(p.user_name),
     education |-> clean_input(p.education),
     skills    |-> clean_input(p.skills),
     goals     |-> clean_input(p.goals),
     interests |-> clean_input(p.interests)]

\* all([user_name, interests, skills, education, goals])
all_filled(p) ==
    /\ p.user_name # <<>>
    /\ p.interests # <<>>
    /\ p.skills # <<>>
    /\ p.education # <<>>
    /\ p.goals # <<>>

(* ------------------------------ throttle ------------------------------- *)

\* TooManyErrors with the ceiling one higher
TooManyErrors_off(n) == n > MaxApiErrors + 1

\* st.session_state.api_errors > 3
TooManyErrors(n) == n > MaxApiErrors

\* timedelta.seconds: the seconds component of the difference, 0..86399
timedelta_seconds(d) == d % SecondsPerDay

\* RateLimited with an interval of 2 seconds
RateLimited_short(lr, t) == lr # <<>> /\ timedelta_seconds(t - lr[1]) < MinInterval - 3

\* last_request and (datetime.now() - last_request).seconds < 5
RateLimited(lr, t) == lr # <<>> /\ timedelta_seconds(t - lr[1]) < MinInterval

\* FormOutcome with the validation ahead of the throttle
FormOutcome_validate_first(n, lr, t, p) ==
    IF all_filled(p) /\ validate_inputs(cleaned_of(p)) # <<>> THEN "invalid"
    ELSE IF TooManyErrors(n) THEN "too_many_errors"
    ELSE IF RateLimited(lr, t) THEN "rate_limited"
    ELSE IF ~all_filled(p) THEN "incomplete"
    ELSE "call"

\* the branch the form handler takes for a submission
FormOutcome(n, lr, t, p) ==
    IF TooManyErrors(n) THEN "too_many_errors"
    ELSE IF RateLimited(lr, t) THEN "rate_limited"
    ELSE IF ~all_filled(p) THEN "incomplete"
    ELSE IF validate_inputs(cleaned_of(p)) # <<>> THEN "invalid"
    ELSE "call"

(* -------------------------- advice and history ------------------------- *)

\* texts the generative service can answer with ("## Path 1\n..."), one of
\* them with markup the PDF builder cannot parse
GoodAdvice == << <<R("#", 2), R(" ", 1), R("a", 4)>>, <<R("a", 10)>> >>
BadAdvice == << <<R("a", 4)>>, <<R("<", 1), R("a", 1)>> >>

\* the string get_career_advice returns from its first except clause
ServiceAdvisory == << <<R("!", 1), R(" ", 1), R("a", 20)>> >>

\* what model.generate_content does: answers, fails at the service level
\* (GenerativeServiceError), answers with no text, or fails in another way
Results ==
    {[tag |-> "ok", text |-> GoodAdvice],
     [tag |-> "ok", text |-> BadAdvice],
     [tag |-> "service_unavailable", text |-> <<>>],
     [tag |-> "empty_response", text |-> <<>>],
     [tag |-> "unexpected_error", text |-> <<>>]}

\* datetime.strftime("%d %b %Y %H:%M"): the date and the time of day to
\* the minute; the seconds are dropped
strftime(t) ==
    [day    |-> t \div SecondsPerDay,
     hour   |-> (t % SecondsPerDay) \div 3600,
     minute |-> (t % 3600) \div 60]

NoStamp == [day |-> 0 - 1, hour |-> 0 - 1, minute |-> 0 - 1]

\* the characters of a formatted timestamp, "05 Nov 2026 17:06"
StampText ==
    <<R("0", 2), R(" ", 1), R("a", 3), R(" ", 1), R("0", 4), R(" ", 1),
      R("0", 2), R(":", 1), R("0", 2)>>

HistoryEntry(c, t, advice) ==
    [name |-> c.user_name, timestamp |-> strftime(t), inputs |-> c, advice |-> advice]

OkCount(h) == Cardinality({i \in 1..Len(h) : h[i].advice # ServiceAdvisory})

(* ------------------------------ exporters ------------------------------ *)

None == [type |-> "none", body |-> <<>>]

\* reportlab's Paragraph raises on markup it cannot parse
Parses(line) == \A i \in 1..Len(line) : line[i].c # "<"

startswith_hash(line) == line # <<>> /\ Head(line).c = "#"

RECURSIVE Story(_)
Story(content) ==
    IF content = <<>> THEN <<>>
    ELSE <<[style |-> IF startswith_hash(Head(content)) THEN "Heading2" ELSE "BodyText",
            text  |-> Head(content)],
           [style |-> "Spacer", text |-> <<>>]>> \o Story(Tail(content))

generate_pdf(content, title) ==
    LET story == <<[style |-> "Title", text |-> title],
                   [style |-> "Spacer", text |-> <<>>]>> \o Story(content)
    IN  IF \A i \in 1..Len(story) : Parses(story[i].text)
        THEN [type |-> "pdf", body |-> story]
        ELSE None

export_text(content) == [type |-> "text", body |-> content]

export_json(data) == [type |-> "json", body |-> data]

\* "Career Plan - " + name
PlanTitle(name) ==
    <<R("a", 6), R(" ", 1), R("a", 4), R(" ", 1), R("-", 1), R(" ", 1)>> \o name

FullHistoryTitle == <<R("a", 4), R(" ", 1), R("a", 6), R(" ", 1), R("a", 7)>>

\* "\n\n".join(f"{name} ({timestamp})\n\n{advice}" ...), as lines
RECURSIVE combined_content(_)
combined_content(h) ==
    IF h = <<>> THEN <<>>
    ELSE LET item == Head(h)
             block == <<item.name \o <<R(" ", 1), R("(", 1)>> \o StampText \o <<R(")", 1)>>,
                        <<>>>> \o item.advice
         IN  IF Len(h) = 1 THEN block
             ELSE block \o << <<>> >> \o combined_content(Tail(h))

(* ------------------------------ rendering ------------------------------ *)

\* one st.download_button call
Download(label, data, stem, stamp, ext, key) ==
    [label |-> label, data |-> data.type,
     file_name |-> [stem |-> stem, stamp |-> stamp, ext |-> ext],
     key |-> key]

LatestCalls(h) ==
    IF h = <<>> THEN <<>>
    ELSE LET latest == h[Len(h)]
         IN  <<Download("PDF", generate_pdf(latest.advice, PlanTitle(latest.name)),
                        "career_plan_", latest.timestamp, ".pdf", <<"pdf_export", NoStamp>>),
               Download("Text", export_text(latest.advice),
                        "career_plan_", latest.timestamp, ".txt", <<"text_export", NoStamp>>)>>

\* the sidebar's bulk export; fmt is the selectbox value of the clicked
\* button, "none" when the button was not clicked in this run
BulkCalls(h, fmt) ==
    IF h = <<>> \/ fmt = "none" THEN <<>>
    ELSE IF fmt = "JSON"
    THEN <<Download("Download JSON", export_json(h),
                    "career_history", NoStamp, ".json", <<"Download JSON", NoStamp>>)>>
    ELSE IF fmt = "PDF"
    THEN LET pdf_file == generate_pdf(combined_content(h), FullHistoryTitle)
         IN  IF pdf_file.type # "none"
             THEN <<Download("Download PDF", pdf_file,
                             "full_career_history", NoStamp, ".pdf", <<"Download PDF", NoStamp>>)>>
             ELSE <<>>
    ELSE <<Download("Download Text", export_text(combined_content(h)),
                    "full_career_history", NoStamp, ".txt", <<"Download Text", NoStamp>>)>>

EntryCalls(entry) ==
    <<Download("PDF", generate_pdf(entry.advice, PlanTitle(entry.name)),
               "career_plan_", entry.timestamp, ".pdf", <<"pdf_", entry.timestamp>>),
      Download("Text", export_text(entry.advice),
               "career_plan_", entry.timestamp, ".txt", <<"text_", entry.timestamp>>),
      Download("JSON", export_json(entry),
               "career_plan_", entry.timestamp, ".json", <<"json_", entry.timestamp>>)>>

\* for entry in reversed(st.session_state.history)
RECURSIVE HistoryCalls(_)
HistoryCalls(h) ==
    IF h = <<>> THEN <<>>
    ELSE EntryCalls(h[Len(h)]) \o HistoryCalls(SubSeq(h, 1, Len(h) - 1))

\* the download buttons of one run of the page, in the order of the script
RenderCalls(h, fmt) == LatestCalls(h) \o BulkCalls(h, fmt) \o HistoryCalls(h)

\* a call the widget library can refuse: a payload that is not data, or a
\* key an earlier widget of the run already has
Refusable(calls, i) ==
    \/ calls[i].data = None.type
    \/ \E j \in 1..(i - 1) : calls[j].key = calls[i].key

FirstRefusable(calls) ==
    IF \E i \in 1..Len(calls) : Refusable(calls, i)
    THEN CHOOSE i \in 1..Len(calls) :
             Refusable(calls, i) /\ \A j \in 1..(i - 1) : ~Refusable(calls, j)
    ELSE 0

\* whether the library raises at such a call is not decided by app.py
AbortChoices(calls) == IF FirstRefusable(calls) = 0 THEN {FALSE} ELSE BOOLEAN

Offered(calls, abort) == IF abort THEN SubSeq(calls, 1, FirstRefusable(calls)) ELSE calls

(* ------------------------------- inputs -------------------------------- *)

\* seconds between one interaction and the next: inside the rate-limit
\* interval, at its end, and a day and two seconds
Delays == {2, MinInterval, SecondsPerDay + 2}

\* seconds before an interaction that submits nothing
Pauses == {2}

tJane  == <<R("a", 4), R(" ", 1), R("a", 3)>>
tJohn  == <<R("a", 4), R("@", 1), R("a", 3), R("!", 3), R(" ", 2)>>
tMin   == <<R("a", 3)>>
tMax   == <<R("a", MaxFieldLen)>>
tLong  == <<R("a", MaxFieldLen + 1)>>
tShort == <<R("a", 2)>>
tBang  == <<R("!", 3), R("a", 2)>>
tBlank == <<R(" ", 3)>>

Profile(n, e, s, g, i) ==
    [user_name |-> n, education |-> e, skills |-> s, goals |-> g, interests |-> i]

\* what the user typed into the five fields of the form
Profiles ==
    {Profile(tJohn, tMax, tJane, tMin, tBlank \o tMin),
     Profile(tJane, tJane, tJane, tJane, tShort),
     Profile(tJane, tLong, tJane, tJane, tJane),
     Profile(tBang, tJane, tJane, tJane, tJane),
     Profile(tJane, tJane, tBlank, tJane, tJane),
     Profile(tJane, tJane, tJane, <<>>, tJane)}

NoProfile == Profile(<<>>, <<>>, <<>>, <<>>, <<>>)

NoArgs == [interests |-> <<>>, skills |-> <<>>, education |-> <<>>, goals |-> <<>>]

(* ------------------------------ the runs ------------------------------- *)

\* the record of one run of the script
Run(kind, raw, outcome, result, called, args, messages, offered, panel, aborted) ==
    [kind |-> kind, raw |-> raw, outcome |-> outcome, result |-> result,
     called |-> called, args |-> args, messages |-> messages,
     offered |-> offered, panel |-> panel, aborted |-> aborted]

Init ==
    /\ show_main = FALSE
    /\ history = <<>>
    /\ api_errors = 0
    /\ last_request = <<>>
    /\ error = FALSE
    /\ now = 0
    /\ runs = 0
    /\ last = Run("load", NoProfile, "none", "none", FALSE, NoArgs, <<>>, <<>>, FALSE, FALSE)

\* the script from the plan display to its end, for the history h and the
\* error flag err the form handling left: the download buttons, then the
\* error boundary, which shows the panel and clears the flag
Page(kind, raw, outcome, result, called, args, messages, h, err, fmt) ==
    LET calls == RenderCalls(h, fmt)
    IN  \E abort \in AbortChoices(calls) :
            /\ error' = (IF abort THEN err ELSE FALSE)
            /\ last' = Run(kind, raw, outcome, result, called, args, messages,
                           Offered(calls, abort), ~abort /\ err, abort)

\* the run happens d seconds after the one before; n is 1 when it counts
\* as one of the MaxRuns runs
Tick(d, n) ==
    /\ runs < MaxRuns
    /\ (now + d) \div SecondsPerDay <= MaxDays
    /\ runs' = runs + n
    /\ now' = now + d

\* "Get Started" on the welcome page, and the rerun it asks for
ClickStart(d) ==
    /\ ~show_main
    /\ Tick(d, 1)
    /\ show_main' = TRUE
    /\ UNCHANGED <<history, api_errors, last_request>>
    /\ Page("start", NoProfile, "none", "none", FALSE, NoArgs, <<>>, history, error, "none")

\* a run of the main page that no button of the script caused
Rerun(d) ==
    /\ show_main
    /\ Tick(d, 1)
    /\ UNCHANGED <<show_main, history, api_errors, last_request>>
    /\ Page("rerun", NoProfile, "none", "none", FALSE, NoArgs, <<>>, history, error, "none")

\* "Export All History as <fmt>" in the sidebar
BulkExport(d, fmt) ==
    /\ show_main
    /\ history # <<>>
    /\ Tick(d, 1)
    /\ UNCHANGED <<show_main, history, api_errors, last_request>>
    /\ Page("bulk", NoProfile, "none", "none", FALSE, NoArgs, <<>>, history, error, fmt)

\* the arguments of get_career_advice: four of the cleaned fields
AdviceArgs(c) ==
    [interests |-> c.interests, skills |-> c.skills,
     education |-> c.education, goals |-> c.goals]

NoAnswer == [tag |-> "none", text |-> <<>>]

\* the answers the service can give to the submission of p at time t: none
\* when the form handler does not call it
Answers(t, p) ==
    IF FormOutcome(api_errors, last_request, t, p) # "call" THEN {NoAnswer}
    ELSE {r \in Results : r.tag = "ok" => OkCount(history) < MaxAnswers}

\* "Generate Career Plan" with the form filled with p; the datetime.now()
\* calls of one run are one instant
Submit(d, p) ==
    /\ show_main
    /\ UNCHANGED show_main
    /\ \E res \in Answers(now + d, p) :
       /\ Tick(d, IF res.tag = "service_unavailable" THEN 0 ELSE 1)
       /\ LET t == now + d
              outcome == FormOutcome(api_errors, last_request, t, p)
              c == cleaned_of(p)
          IN  IF outcome \in {"too_many_errors", "rate_limited"}
              THEN \* st.stop()
                   /\ UNCHANGED <<history, api_errors, last_request, error>>
                   /\ last' = Run("submit", p, outcome, "none", FALSE, NoArgs, <<>>, <<>>, FALSE, FALSE)
              ELSE IF outcome = "incomplete"
              THEN /\ UNCHANGED <<history, api_errors, last_request>>
                   /\ Page("submit", p, outcome, "none", FALSE, NoArgs,
                           <<[field |-> "form", msg |-> "Please complete all fields"]>>,
                           history, error, "none")
              ELSE IF outcome = "invalid"
              THEN /\ UNCHANGED <<history, api_errors, last_request>>
                   /\ Page("submit", p, outcome, "none", FALSE, NoArgs,
                           validate_inputs(c), history, error, "none")
              ELSE IF res.tag = "ok"
              THEN /\ history' = Append(history, HistoryEntry(c, t, res.text))
                   /\ last_request' = <<t>>
                   /\ UNCHANGED api_errors
                   /\ Page("submit", p, "appended", res.tag, TRUE, AdviceArgs(c), <<>>,
                           history', error, "none")
              ELSE IF res.tag = "service_unavailable"
              THEN /\ api_errors' = api_errors + 1
                   /\ history' = Append(history, HistoryEntry(c, t, ServiceAdvisory))
                   /\ last_request' = <<t>>
                   /\ Page("submit", p, "appended", res.tag, TRUE, AdviceArgs(c), <<>>,
                           history', error, "none")
              ELSE \* except Exception: the flag is set and the exception ends the run
                   /\ error' = TRUE
                   /\ UNCHANGED <<history, api_errors, last_request>>
                   /\ last' = Run("submit", p, "raised", res.tag, TRUE, AdviceArgs(c), <<>>, <<>>, FALSE, FALSE)

Next ==
    \/ \E d \in Pauses : ClickStart(d)
    \/ \E d \in Pauses : Rerun(d)
    \/ \E d \in Pauses, fmt \in {"JSON", "Text", "PDF"} : BulkExport(d, fmt)
    \/ \E d \in Delays, p \in Profiles : Submit(d, p)

Spec == Init /\ [][Next]_vars

(* ----------------------------- properties ------------------------------ *)

IsPrefix(s, t) == Len(s) <= Len(t) /\ SubSeq(t, 1, Len(s)) = s

\* the form was complete and its sanitized fields fail validation
FailsValidation(p) == all_filled(p) /\ validate_inputs(cleaned_of(p)) # <<>>

PassesValidation(p) == all_filled(p) /\ validate_inputs(cleaned_of(p)) = <<>>

ValidText(t) == TextLen(t) >= MinLen /\ TextLen(t) <= MaxFieldLen /\ ~HasDisallowed(t)

\* C1: a submission whose Advice Client outcome is a failure
\* (ServiceUnavailable, EmptyResponse, UnexpectedError) leaves the history
\* as it was.
C1_FailedRequestNeverAppends ==
    [][(/\ last'.kind = "submit"
        /\ last'.result \in {"service_unavailable", "empty_response", "unexpected_error"})
       => history' = history]_vars

\* C2: with error_count <= 3 and last_request_time set, a submission 5
\* seconds or more after last_request_time is not denied by the rate limit,
\* however long after, and reaches the Advice Client when its inputs are valid.
C2_AllowedFromFiveSeconds ==
    [][(/\ last'.kind = "submit"
        /\ api_errors <= MaxApiErrors
        /\ last_request # <<>>
        /\ now' - last_request[1] >= MinInterval)
       => /\ last'.outcome # "rate_limited"
          /\ PassesValidation(last'.raw) => last'.called]_vars

\* C3, as stated: a submission less than 5 seconds after last_request_time
\* is denied as rate limited; the Advice Client is not called and history,
\* error_count and last_request_time are unchanged.
C3_DeniedAsRateLimited ==
    [][(/\ last'.kind = "submit"
        /\ last_request # <<>>
        /\ now' - last_request[1] < MinInterval)
       => /\ last'.outcome = "rate_limited"
          /\ ~last'.called
          /\ UNCHANGED <<history, api_errors, last_request>>]_vars

\* C3, amended: a submission less than 5 seconds after last_request_time is
\* denied, as rate limited when error_count <= 3 and with the
\* too-many-errors denial when error_count > 3; the Advice Client is not
\* called and history, error_count and last_request_time are unchanged.
C3_DeniedInsideInterval ==
    [][(/\ last'.kind = "submit"
        /\ last_request # <<>>
        /\ now' - last_request[1] < MinInterval)
       => /\ last'.outcome = (IF api_errors > MaxApiErrors
                              THEN "too_many_errors" ELSE "rate_limited")
          /\ ~last'.called
          /\ UNCHANGED <<history, api_errors, last_request>>]_vars

\* C3 witness: the latest run was a submission made 2 seconds after a
\* request that was answered, and it was denied as rate limited.
C3_Witness ==
    /\ last.kind = "submit"
    /\ last.outcome = "rate_limited"
    /\ last_request # <<>>
    /\ now - last_request[1] < MinInterval
    /\ history # <<>>

\* C4: error_count never decreases, and once it exceeds 3 every run leaves
\* the history as it is and does not call the Advice Client, and every
\* submission is denied with the too-many-errors message.
C4_LockedOutForEver ==
    [][/\ api_errors' >= api_errors
       /\ api_errors > MaxApiErrors
          => /\ ~last'.called
             /\ history' = history
             /\ last'.kind = "submit" => last'.outcome = "too_many_errors"]_vars

\* C4 witness: error_count is above 3 and the latest run was a submission
\* of valid inputs, outside the rate-limit interval, denied for that reason.
C4_Witness ==
    /\ api_errors > MaxApiErrors
    /\ last.kind = "submit"
    /\ last.outcome = "too_many_errors"
    /\ PassesValidation(last.raw)
    /\ now - last_request[1] >= MinInterval

\* C5: no download button is given the null result of generate_pdf, at the
\* latest-plan export, the per-entry exports and the bulk export.
C5_NoNullDownload ==
    \A i \in 1..Len(last.offered) : last.offered[i].data # None.type

\* C6: every run leaves the previous history as a prefix, and the history
\* grows by exactly one entry in the runs whose advice request succeeded and
\* in no other, so that its size is the number of successful requests.
C6_OneEntryPerSuccess ==
    [][/\ IsPrefix(history, history')
       /\ Len(history') = Len(history) + (IF last'.result = "ok" THEN 1 ELSE 0)]_vars

C8_FlagClearedByNextRun ==
    [][last.outcome = "raised" => (last'.panel /\ ~error')]_vars

\* the fields of every history entry are valid texts, the name among them
C9_EntriesValid ==
    \A i \in 1..Len(history) :
        /\ ValidText(history[i].inputs.user_name)
        /\ ValidText(history[i].inputs.interests)
        /\ ValidText(history[i].inputs.skills)
        /\ ValidText(history[i].inputs.education)
        /\ ValidText(history[i].inputs.goals)
        /\ history[i].name = history[i].inputs.user_name

\* the latest call of the Advice Client had valid texts, the cleaned ones
C9_CallValid ==
    last.called =>
        /\ ValidText(last.args.interests)
        /\ ValidText(last.args.skills)
        /\ ValidText(last.args.education)
        /\ ValidText(last.args.goals)
        /\ ValidText(clean_input(last.raw.user_name))
        /\ last.args = AdviceArgs(cleaned_of(last.raw))

\* C9: every history entry and every call of the Advice Client carries
\* fields of length 3..500 made of word characters, whitespace and @ . , -
\* that passed validation; a submission that fails validation, or is
\* incomplete, does not call the Advice Client and does not change the history.
C9_OnlyValidatedInputs ==
    /\ [](C9_EntriesValid /\ C9_CallValid)
    /\ [][(last'.kind = "submit" /\ ~PassesValidation(last'.raw))
          => (~last'.called /\ history' = history)]_vars

\* C9 witness: the latest run submitted a name with characters the
\* Sanitizer removes, called the Advice Client and appended the entry.
C9_Witness ==
    /\ last.kind = "submit"
    /\ last.called
    /\ last.outcome = "appended"
    /\ HasDisallowed(last.raw.user_name)
    /\ history # <<>>
    /\ history[Len(history)].inputs = cleaned_of(last.raw)

\* C10: any two distinct history entries have distinct timestamp strings.
C10_DistinctTimestamps ==
    \A i, j \in 1..Len(history) :
        i # j => history[i].timestamp # history[j].timestamp

====
